---- MODULE Spec2Model ----
(***************************************************************************)
(* leptos-use: StringCodec (src/src/storage/codec_string.rs), the reactive *)
(* storage cell that uses it (use_storage family, sections 4.2/4.3/5 of    *)
(* the specification), and use_display_media                               *)
(* (src/src/use_display_media.rs).                                         *)
(*                                                                         *)
(* Strings are sequences of one-character strings.  A typed value is a     *)
(* record [t, i, s, f]: t names the Rust type, and i / s / f hold the      *)
(* value when t is "i8" / "String" / "f64".                                *)
(***************************************************************************)
EXTENDS Integers, Sequences, FiniteSets

\* ------------------------------------------------------------------------
\* Bounds of the model
\* ------------------------------------------------------------------------

\* longest raw string handed to decode in the codec specification
MaxLen == 3

\* largest mantissa of the finite f64 values handed to encode
MaxMant == 30

\* number of caller / environment operations in one run of the storage cells
MaxOps == 2

\* number of use_display_media call sites alive at once
NInst == 2

\* ------------------------------------------------------------------------
\* Characters and the typed values of StringCodec
\* ------------------------------------------------------------------------

Digits == <<"0", "1", "2", "3", "4", "5", "6", "7", "8", "9">>

DigitChar(d) == Digits[d + 1]

IsDigit(c) == \E d \in 0..9 : Digits[d + 1] = c

DigitVal(c) == CHOOSE d \in 0..9 : Digits[d + 1] = c

\* the characters raw strings are drawn from ("U+1F389" is the one code
\* point of the party popper in test_string_codec)
RawChars == {"0", "1", "2", "8", "9", "-", "+", ".", "N", "a", "x", "U+1F389"}

RECURSIVE StringsUpTo(_)
StringsUpTo(n) ==
    IF n = 0 THEN {<<>>}
    ELSE LET shorter == StringsUpTo(n - 1)
         IN  shorter \cup {Append(s, c) : s \in {x \in shorter : Len(x) = n - 1}, c \in RawChars}

Types == {"i8", "String", "f64"}

\* f64 values: NaN, the infinities, and the finite values
\* (-1)^neg * m * 10^(-e), kept normalised (no trailing zero in the fraction)
F64Nan == [k |-> "nan", neg |-> FALSE, m |-> 0, e |-> 0]

F64Inf(neg) == [k |-> "inf", neg |-> neg, m |-> 0, e |-> 0]

F64Fin(neg, m, e) == [k |-> "fin", neg |-> neg, m |-> m, e |-> e]

F64Zero == F64Fin(FALSE, 0, 0)

I8Min == -(2 ^ 7)

I8Max == 2 ^ 7 - 1

I8V(n) == [t |-> "i8", i |-> n, s |-> <<>>, f |-> F64Zero]

StrV(s) == [t |-> "String", i |-> 0, s |-> s, f |-> F64Zero]

F64V(f) == [t |-> "f64", i |-> 0, s |-> <<>>, f |-> f]

Ok(v) == [ok |-> TRUE, val |-> v, err |-> "none"]

Err(e) == [ok |-> FALSE, val |-> I8V(0), err |-> e]

OkStr(s) == [ok |-> TRUE, val |-> s, err |-> "none"]

ErrStr(e) == [ok |-> FALSE, val |-> <<>>, err |-> e]

\* PartialEq of the value types: f64 compares NaN unequal to everything and
\* -0.0 equal to 0.0
F64Eq(a, b) ==
    /\ a.k # "nan"
    /\ b.k # "nan"
    /\ \/ a = b
       \/ a.k = "fin" /\ b.k = "fin" /\ a.m = 0 /\ b.m = 0

ValEq(a, b) ==
    /\ a.t = b.t
    /\ IF a.t = "f64" THEN F64Eq(a.f, b.f) ELSE a = b

ResultEq(r, q) ==
    /\ r.ok = q.ok
    /\ IF r.ok THEN ValEq(r.val, q.val) ELSE r.err = q.err

\* ------------------------------------------------------------------------
\* ToString / FromStr of the value types (what val.to_string() and
\* T::from_str(&str) run for T = i8, String, f64)
\* ------------------------------------------------------------------------

RECURSIVE NatToString(_)
NatToString(n) ==
    IF n < 10 THEN <<DigitChar(n)>>
    ELSE NatToString(n \div 10) \o <<DigitChar(n % 10)>>

I8ToString(n) == IF n < 0 THEN <<"-">> \o NatToString(-n) ELSE NatToString(n)

\* core::num from_str_radix(src, 10) for a signed type: the digits are
\* accumulated left to right with checked arithmetic, on the negative side
\* for a "-" sign
RECURSIVE I8Accumulate(_, _, _, _)
I8Accumulate(digits, k, acc, positive) ==
    IF k > Len(digits) THEN Ok(I8V(acc))
    ELSE IF ~IsDigit(digits[k]) THEN Err("InvalidDigit")
    ELSE LET mul == acc * 10
             nxt == IF positive THEN mul + DigitVal(digits[k])
                    ELSE mul - DigitVal(digits[k])
         IN  IF mul > I8Max \/ nxt > I8Max THEN Err("PosOverflow")
             ELSE IF mul < I8Min \/ nxt < I8Min THEN Err("NegOverflow")
             ELSE I8Accumulate(digits, k + 1, nxt, positive)

I8FromStr(src) ==
    IF Len(src) = 0 THEN Err("Empty")
    ELSE IF src[1] \in {"+", "-"} /\ Len(src) = 1 THEN Err("InvalidDigit")
    ELSE IF src[1] = "+" THEN I8Accumulate(Tail(src), 1, 0, TRUE)
    ELSE IF src[1] = "-" THEN I8Accumulate(Tail(src), 1, 0, FALSE)
    ELSE I8Accumulate(src, 1, 0, TRUE)

RECURSIVE Pow10(_)
Pow10(e) == IF e = 0 THEN 1 ELSE 10 * Pow10(e - 1)

RECURSIVE PadZeros(_, _)
PadZeros(s, width) == IF Len(s) >= width THEN s ELSE PadZeros(<<"0">> \o s, width)

\* Display of f64: "NaN", "inf", "-inf", or sign, integer part and, when
\* there is one, "." and the fraction; never an exponent
F64ToString(f) ==
    IF f.k = "nan" THEN <<"N", "a", "N">>
    ELSE LET sign == IF f.neg THEN <<"-">> ELSE <<>>
         IN  IF f.k = "inf" THEN sign \o <<"i", "n", "f">>
             ELSE LET whole == NatToString(f.m \div Pow10(f.e))
                      frac  == PadZeros(NatToString(f.m % Pow10(f.e)), f.e)
                  IN  IF f.e = 0 THEN sign \o whole
                      ELSE sign \o whole \o <<".">> \o frac

RECURSIVE AllDigits(_)
AllDigits(s) == Len(s) = 0 \/ (IsDigit(Head(s)) /\ AllDigits(Tail(s)))

RECURSIVE DigitsValue(_, _)
DigitsValue(s, acc) ==
    IF Len(s) = 0 THEN acc ELSE DigitsValue(Tail(s), acc * 10 + DigitVal(Head(s)))

RECURSIVE Normalise(_, _)
Normalise(m, e) ==
    IF e > 0 /\ m % 10 = 0 THEN Normalise(m \div 10, e - 1) ELSE <<m, e>>

LowerChar(c) ==
    CASE c = "N" -> "n"
      [] c = "A" -> "a"
      [] c = "I" -> "i"
      [] c = "F" -> "f"
      [] OTHER   -> c

LowerStr(s) == [k \in 1..Len(s) |-> LowerChar(s[k])]

DotAt(s) == IF \E k \in 1..Len(s) : s[k] = "."
            THEN CHOOSE k \in 1..Len(s) : s[k] = "." /\ \A j \in 1..(k - 1) : s[j] # "."
            ELSE 0

\* core::num::dec2flt for the strings without an exponent part: an optional
\* sign, then nan / inf / infinity in any case, or digits with an optional
\* "." and at least one digit in all
F64FromStr(src) ==
    IF Len(src) = 0 THEN Err("Empty")
    ELSE LET neg  == src[1] = "-"
             body == IF src[1] \in {"+", "-"} THEN Tail(src) ELSE src
             low  == LowerStr(body)
             dot  == DotAt(body)
             whole == IF dot = 0 THEN body ELSE SubSeq(body, 1, dot - 1)
             frac  == IF dot = 0 THEN <<>> ELSE SubSeq(body, dot + 1, Len(body))
         IN  IF low = <<"n", "a", "n">> THEN Ok(F64V(F64Nan))
             ELSE IF low \in {<<"i", "n", "f">>, <<"i", "n", "f", "i", "n", "i", "t", "y">>}
                  THEN Ok(F64V(F64Inf(neg)))
             ELSE IF Len(whole) + Len(frac) = 0 \/ ~AllDigits(whole) \/ ~AllDigits(frac)
                  THEN Err("Invalid")
             ELSE LET n == Normalise(DigitsValue(whole \o frac, 0), Len(frac))
                  IN  Ok(F64V(F64Fin(neg, n[1], n[2])))

\* impl ToString for T, by type
to_string(val) ==
    CASE val.t = "i8"     -> I8ToString(val.i)
      [] val.t = "String" -> val.s
      [] val.t = "f64"    -> F64ToString(val.f)

\* impl FromStr for T, by type (String's from_str is infallible)
from_str(T, str) ==
    CASE T = "i8"     -> I8FromStr(str)
      [] T = "String" -> Ok(StrV(str))
      [] T = "f64"    -> F64FromStr(str)

\* ------------------------------------------------------------------------
\* impl<T: FromStr + ToString> Codec<T> for StringCodec
\* ------------------------------------------------------------------------

\* a codec whose encode reports an error instead of a string
encode_failing(val) == ErrStr("EncodeError")

\* a codec whose encode renders the magnitude only
encode_unsigned(val) ==
    IF val.t = "i8" /\ val.i < 0 THEN OkStr(NatToString(-val.i)) ELSE OkStr(to_string(val))

encode(val) == OkStr(to_string(val))

\* a codec whose decode answers a zero for what it cannot parse
decode_lenient(T, str) ==
    IF T = "i8" /\ ~from_str(T, str).ok THEN Ok(I8V(0)) ELSE from_str(T, str)

\* a codec whose decode drops a leading minus sign
decode_unsigned(T, str) ==
    IF T = "i8" /\ Len(str) > 1 /\ str[1] = "-" THEN from_str(T, Tail(str))
    ELSE from_str(T, str)

decode(T, str) == from_str(T, str)

\* ------------------------------------------------------------------------
\* The codec on its own: one encode / decode round trip, or one decode of a
\* raw string
\* ------------------------------------------------------------------------

VARIABLES
    \* the codec on its own
    ctype, cin, cenc, cdec, cpc,
    \* the storage medium and the reactive storage cells
    medium, mode, cfg, pc, value, errs, pend, inbox, ops, last, hist,
    \* use_display_media
    navigator, media_devices, opts, mpc, call, promise, resource

codecVars == <<ctype, cin, cenc, cdec, cpc>>

cellVars == <<medium, mode, cfg, pc, value, errs, pend, inbox, ops, last, hist>>

mediaVars == <<navigator, media_devices, opts, mpc, call, promise, resource>>

vars == <<codecVars, cellVars, mediaVars>>

FiniteF64s ==
    {F64Fin(neg, m, e) : neg \in BOOLEAN, m \in 0..MaxMant, e \in 0..2}

F64Vals ==
    {F64Nan, F64Inf(FALSE), F64Inf(TRUE)}
        \cup {f \in FiniteF64s : f.e = 0 \/ f.m % 10 # 0}

ValuesOf(T) ==
    CASE T = "i8"     -> {I8V(n) : n \in I8Min..I8Max}
      [] T = "String" -> {StrV(s) : s \in StringsUpTo(MaxLen)}
      [] T = "f64"    -> {F64V(f) : f \in F64Vals}

NoResult == ErrStr("not run")

NoDecode == Err("not run")

CodecStart ==
    /\ ctype \in Types
    /\ \/ \E v \in ValuesOf(ctype) : cin = [kind |-> "val", v |-> v, s |-> <<>>]
       \/ \E s \in StringsUpTo(MaxLen) : cin = [kind |-> "raw", v |-> I8V(0), s |-> s]
    /\ cenc = NoResult
    /\ cdec = NoDecode
    /\ cpc = "idle"

\* codec.encode(&v)
CodecEncode ==
    /\ cpc = "idle"
    /\ cin.kind = "val"
    /\ cenc' = encode(cin.v)
    /\ cpc' = "encoded"
    /\ UNCHANGED <<ctype, cin, cdec, cellVars, mediaVars>>

\* codec.decode(s) of the string encode returned
CodecDecode ==
    /\ cpc = "encoded"
    /\ cenc.ok
    /\ cdec' = decode(ctype, cenc.val)
    /\ cpc' = "decoded"
    /\ UNCHANGED <<ctype, cin, cenc, cellVars, mediaVars>>

\* codec.decode(s) of an arbitrary string
CodecDecodeRaw ==
    /\ cpc = "idle"
    /\ cin.kind = "raw"
    /\ cdec' = decode(ctype, cin.s)
    /\ cpc' = "rawdecoded"
    /\ UNCHANGED <<ctype, cin, cenc, cellVars, mediaVars>>


\* the codec is not exercised in the other specifications
CodecIdle ==
    /\ ctype = "i8"
    /\ cin = [kind |-> "raw", v |-> I8V(0), s |-> <<>>]
    /\ cenc = NoResult
    /\ cdec = NoDecode
    /\ cpc = "unused"

\* ------------------------------------------------------------------------
\* Persistent store adapter (specification 4.2) over one medium
\* ------------------------------------------------------------------------

\* cell 1 is the cell the caller writes and removes through, with any
\* configuration; cell 2 is a second cell bound to the same key that only
\* observes: it listens and writes nothing
Cells == {1, 2}

Callers == {1}

\* every cell is bound to the same key, the one slot of the medium modelled
Key == "k"

Keys == {Key}

Modes == {"ok", "full", "off"}

Absent == [some |-> FALSE, s |-> <<>>]

Some(s) == [some |-> TRUE, s |-> s]

\* the typed value of the cells: StringCodec over i8
CellType == "i8"

default_value == I8V(0)

\* values the callers write, raw strings other writers store
SetVals == {I8V(42), I8V(-7)}

RawIn == {<<"9", "9">>, <<"x">>}

\* get(key): None when the key is absent or the medium unavailable
AdapterGet(key) == IF mode = "off" THEN Absent ELSE medium[key]

\* set(key, value): "ok", or the StoreError the medium answers
AdapterSet(key, str) ==
    CASE mode = "ok"   -> "ok"
      [] mode = "full" -> "QuotaExceeded"
      [] mode = "off"  -> "Unavailable"

\* a remove that leaves the entry in place
AdapterRemoveKeeps(key) == medium

\* remove(key): removing an absent key, or on an unavailable medium, is a no-op
AdapterRemove(key) ==
    IF mode = "off" THEN medium ELSE [medium EXCEPT ![key] = Absent]

Subscribed(d) == pc[d] = "ready" /\ cfg[d].listen

\* the change feed: a change of the cells' key reaches every subscribed
\* cell, the originating one included (the feed does not exclude the
\* originating context; filter_self_events is what does)
Emit(inb, origin, key, new) ==
    [d \in Cells |->
        IF key = Key /\ Subscribed(d)
        THEN Append(inb[d], [new |-> new, origin |-> origin])
        ELSE inb[d]]

\* on_error(e)
OnError(es, c, kind) == [es EXCEPT ![c] = [n |-> @.n + 1, kind |-> kind]]

\* the handler that ran last: its name, its cell and how it ended
NoOp == [op |-> "none", cell |-> 0, res |-> "none"]

Did(op, c, res) == [op |-> op, cell |-> c, res |-> res]

\* ------------------------------------------------------------------------
\* Reactive storage cell (specification 4.3 and 5)
\* ------------------------------------------------------------------------

Configs == [listen : BOOLEAN, write_default : BOOLEAN, filter_self : BOOLEAN]

\* the configuration of the observing cell
ObserverConfig == [listen |-> TRUE, write_default |-> FALSE, filter_self |-> FALSE]

\* persisting a value: encode, then the adapter's set; the medium, the
\* change events and the error callback's record after it
Store(c, v, med, inb, es) ==
    LET enc == encode(v)
        res == IF enc.ok THEN AdapterSet(Key, enc.val) ELSE "CodecError"
    IN  [res    |-> res,
         medium |-> IF res = "ok" THEN [med EXCEPT ![Key] = Some(enc.val)] ELSE med,
         inbox  |-> IF res = "ok" THEN Emit(inb, c, Key, Some(enc.val)) ELSE inb,
         errs   |-> IF res = "ok" THEN es ELSE OnError(es, c, res)]

CellsStart ==
    /\ mode \in {"ok", "off"}
    /\ medium = [k \in Keys |-> Absent]
    /\ cfg \in [Cells -> Configs]
    /\ cfg[2] = ObserverConfig
    /\ pc = [c \in Cells |-> "new"]
    /\ value = [c \in Cells |-> default_value]
    /\ errs = [c \in Cells |-> [n |-> 0, kind |-> "none"]]
    /\ pend = [c \in Cells |-> <<>>]
    /\ inbox = [c \in Cells |-> <<>>]
    /\ ops = 0
    /\ last = NoOp
    /\ hist = [clean |-> TRUE, written |-> FALSE, w |-> default_value]

\* construction of the cell: read, decode or fall back to the default (and
\* write the default back when configured to), then subscribe
InitCell(c) ==
    /\ pc[c] = "new"
    /\ LET raw  == AdapterGet(Key)
           dec  == IF raw.some THEN decode(CellType, raw.s) ELSE NoDecode
           good == raw.some /\ dec.ok
           es1  == IF raw.some /\ ~dec.ok THEN OnError(errs, c, "CodecError") ELSE errs
           wb   == Store(c, default_value, medium, inbox, es1)
           write == ~good /\ cfg[c].write_default
       IN  /\ value' = [value EXCEPT ![c] = IF good THEN dec.val ELSE default_value]
           /\ medium' = IF write THEN wb.medium ELSE medium
           /\ inbox' = IF write THEN wb.inbox ELSE inbox
           /\ errs' = IF write THEN wb.errs ELSE es1
           /\ last' = Did("init", c,
                          IF good THEN "decoded"
                          ELSE IF raw.some THEN "corrupt" ELSE "missing")
           /\ hist' = IF hist.written \/ (write /\ wb.res # "ok")
                      THEN [hist EXCEPT !.clean = FALSE] ELSE hist
    /\ pc' = [pc EXCEPT ![c] = "ready"]
    /\ UNCHANGED <<mode, cfg, pend, ops, codecVars, mediaVars>>

\* write(new_value), step 1: the reactive value changes at once and the
\* persistence of new_value is left pending
Setter(c, v) ==
    /\ pc[c] = "ready"
    /\ ops < MaxOps
    /\ value' = [value EXCEPT ![c] = v]
    /\ pend' = [pend EXCEPT ![c] = Append(@, v)]
    /\ ops' = ops + 1
    /\ last' = Did("set", c, "none")
    /\ hist' = IF c = 1 THEN [hist EXCEPT !.written = TRUE, !.w = v]
               ELSE [hist EXCEPT !.clean = FALSE]
    /\ UNCHANGED <<medium, mode, cfg, pc, errs, inbox, codecVars, mediaVars>>

\* write(new_value), steps 2 and 3, for the oldest pending write of c
Persist(c) ==
    /\ pend[c] # <<>>
    /\ LET v  == Head(pend[c])
           st == Store(c, v, medium, inbox, errs)
       IN  /\ medium' = st.medium
           /\ inbox' = st.inbox
           /\ errs' = st.errs
           /\ last' = Did("persist", c, st.res)
           /\ hist' = IF st.res = "ok" THEN hist ELSE [hist EXCEPT !.clean = FALSE]
    /\ pend' = [pend EXCEPT ![c] = Tail(@)]
    /\ UNCHANGED <<value, mode, cfg, pc, ops, codecVars, mediaVars>>

\* remove(): reset the reactive value, remove the key from the medium
Remover(c) ==
    /\ pc[c] = "ready"
    /\ ops < MaxOps
    /\ value' = [value EXCEPT ![c] = default_value]
    /\ medium' = AdapterRemove(Key)
    /\ inbox' = IF medium'[Key] # medium[Key] THEN Emit(inbox, c, Key, Absent) ELSE inbox
    /\ ops' = ops + 1
    /\ last' = Did("remove", c, "none")
    /\ hist' = [hist EXCEPT !.clean = FALSE]
    /\ UNCHANGED <<mode, cfg, pc, errs, pend, codecVars, mediaVars>>

\* external-change handling of one change event of the cell's key
Handle(c, ev) ==
    LET dec == IF ev.new.some THEN decode(CellType, ev.new.s) ELSE NoDecode
    IN  IF cfg[c].filter_self /\ ev.origin = c
        THEN [value |-> value[c], errs |-> errs, res |-> "filtered"]
        ELSE IF ~ev.new.some
        THEN [value |-> default_value, errs |-> errs, res |-> "reset"]
        ELSE IF dec.ok
        THEN [value |-> dec.val, errs |-> errs, res |-> "applied"]
        ELSE [value |-> value[c], errs |-> OnError(errs, c, "CodecError"), res |-> "corrupt"]

Without(s, i) == SubSeq(s, 1, i - 1) \o SubSeq(s, i + 1, Len(s))

\* the change feed hands cell c one of its pending events, in any order
Deliver(c, i) ==
    /\ i \in 1..Len(inbox[c])
    /\ LET ev == inbox[c][i]
           h  == Handle(c, ev)
       IN  /\ value' = [value EXCEPT ![c] = h.value]
           /\ errs' = h.errs
           /\ last' = Did("event", c, h.res)
    /\ inbox' = [inbox EXCEPT ![c] = Without(@, i)]
    /\ UNCHANGED <<medium, mode, cfg, pc, pend, ops, hist, codecVars, mediaVars>>

DeliverAny(c) == \E i \in 1..Len(inbox[c]) : Deliver(c, i)

\* another context (another tab) stores a raw string
ExtWrite(key, s) ==
    /\ mode = "ok"
    /\ ops < MaxOps
    /\ medium' = [medium EXCEPT ![key] = Some(s)]
    /\ inbox' = Emit(inbox, 0, key, Some(s))
    /\ ops' = ops + 1
    /\ last' = Did("ext_write", 0, "none")
    /\ hist' = IF key = Key THEN [hist EXCEPT !.clean = FALSE] ELSE hist
    /\ UNCHANGED <<value, errs, mode, cfg, pc, pend, codecVars, mediaVars>>

\* the medium runs out of quota, or gets some back
QuotaChange ==
    /\ mode # "off"
    /\ ops < MaxOps
    /\ ops' = ops + 1
    /\ mode' = IF mode = "ok" THEN "full" ELSE "ok"
    /\ last' = Did("quota", 0, "none")
    /\ UNCHANGED <<medium, cfg, pc, value, errs, pend, inbox, hist, codecVars, mediaVars>>

\* the cells are not exercised in the other specifications
CellsIdle ==
    /\ mode = "off"
    /\ medium = [k \in Keys |-> Absent]
    /\ cfg = [c \in Cells |-> [listen |-> FALSE, write_default |-> FALSE, filter_self |-> FALSE]]
    /\ pc = [c \in Cells |-> "unused"]
    /\ value = [c \in Cells |-> default_value]
    /\ errs = [c \in Cells |-> [n |-> 0, kind |-> "none"]]
    /\ pend = [c \in Cells |-> <<>>]
    /\ inbox = [c \in Cells |-> <<>>]
    /\ ops = 0
    /\ last = NoOp
    /\ hist = [clean |-> TRUE, written |-> FALSE, w |-> default_value]

\* ------------------------------------------------------------------------
\* use_display_media
\* ------------------------------------------------------------------------

Inst == 1..NInst

NoOpts == [some |-> FALSE, c |-> "none"]

\* Option<DisplayMediaStreamConstraints>
OptsIn == {NoOpts, [some |-> TRUE, c |-> "video"], [some |-> TRUE, c |-> "video+audio"]}

NoCall == [method |-> "none", arg |-> "none"]

\* Option<Result<MediaStream, JsValue>>
NoneYet == [set |-> FALSE, ok |-> FALSE, v |-> "none"]

SomeOk(s) == [set |-> TRUE, ok |-> TRUE, v |-> s]

SomeErr(e) == [set |-> TRUE, ok |-> FALSE, v |-> e]

Streams == {"stream1", "stream2"}

Rejections == {"NotAllowedError", "AbortError"}

MediaStart ==
    /\ navigator \in BOOLEAN
    /\ media_devices \in BOOLEAN
    /\ opts = [i \in Inst |-> NoOpts]
    /\ mpc = [i \in Inst |-> "unmounted"]
    /\ call = [i \in Inst |-> NoCall]
    /\ promise = [i \in Inst |-> "none"]
    /\ resource = [i \in Inst |-> NoneYet]

MediaIdle ==
    /\ navigator = FALSE
    /\ media_devices = FALSE
    /\ opts = [i \in Inst |-> NoOpts]
    /\ mpc = [i \in Inst |-> "unused"]
    /\ call = [i \in Inst |-> NoCall]
    /\ promise = [i \in Inst |-> "none"]
    /\ resource = [i \in Inst |-> NoneYet]

\* use_display_media(options): a local resource whose fetcher is
\* create_media and whose source is the options; it holds None at first
use_display_media(i, o) ==
    /\ mpc[i] = "unmounted"
    /\ opts' = [opts EXCEPT ![i] = o]
    /\ mpc' = [mpc EXCEPT ![i] = "created"]
    /\ resource' = [resource EXCEPT ![i] = NoneYet]
    /\ UNCHANGED <<navigator, media_devices, call, promise, codecVars, cellVars>>

\* a create_media that unwraps the navigator
create_media_unwrap(i) ==
    /\ mpc[i] = "created"
    /\ IF ~navigator
       THEN /\ mpc' = [mpc EXCEPT ![i] = "panicked"]
            /\ UNCHANGED <<resource, call, promise>>
       ELSE /\ mpc' = [mpc EXCEPT ![i] = "awaiting"]
            /\ call' = [call EXCEPT ![i] = [method |-> "get_display_media", arg |-> "none"]]
            /\ promise' = [promise EXCEPT ![i] = "pending"]
            /\ UNCHANGED resource
    /\ UNCHANGED <<navigator, media_devices, opts, codecVars, cellVars>>

\* create_media(opts) up to its await: the navigator, its media devices, the
\* call of get_display_media (which may throw); every failure is the Err the
\* resource receives
create_media(i) ==
    /\ mpc[i] = "created"
    /\ \/ /\ ~navigator
          /\ resource' = [resource EXCEPT ![i] = SomeErr("Failed to access window.navigator")]
          /\ mpc' = [mpc EXCEPT ![i] = "done"]
          /\ UNCHANGED <<call, promise>>
       \/ /\ navigator
          /\ ~media_devices
          /\ resource' = [resource EXCEPT ![i] = SomeErr("media_devices failed")]
          /\ mpc' = [mpc EXCEPT ![i] = "done"]
          /\ UNCHANGED <<call, promise>>
       \/ /\ navigator
          /\ media_devices
          /\ call' = [call EXCEPT ![i] =
                        IF opts[i].some
                        THEN [method |-> "get_display_media_with_constraints", arg |-> opts[i].c]
                        ELSE [method |-> "get_display_media", arg |-> "none"]]
          /\ \/ /\ resource' = [resource EXCEPT ![i] = SomeErr("get_display_media threw")]
                /\ mpc' = [mpc EXCEPT ![i] = "done"]
                /\ UNCHANGED promise
             \/ /\ promise' = [promise EXCEPT ![i] = "pending"]
                /\ mpc' = [mpc EXCEPT ![i] = "awaiting"]
                /\ UNCHANGED resource
    /\ UNCHANGED <<navigator, media_devices, opts, codecVars, cellVars>>

\* the promise resolves with a stream
PromiseResolves(i, s) ==
    /\ mpc[i] = "awaiting"
    /\ promise' = [promise EXCEPT ![i] = "resolved"]
    /\ resource' = [resource EXCEPT ![i] = SomeOk(s)]
    /\ mpc' = [mpc EXCEPT ![i] = "done"]
    /\ UNCHANGED <<navigator, media_devices, opts, call, codecVars, cellVars>>

\* the promise rejects
PromiseRejects(i, e) ==
    /\ mpc[i] = "awaiting"
    /\ promise' = [promise EXCEPT ![i] = "rejected"]
    /\ resource' = [resource EXCEPT ![i] = SomeErr(e)]
    /\ mpc' = [mpc EXCEPT ![i] = "done"]
    /\ UNCHANGED <<navigator, media_devices, opts, call, codecVars, cellVars>>

\* ------------------------------------------------------------------------
\* Specifications
\* ------------------------------------------------------------------------

Init == CodecIdle /\ CellsStart /\ MediaIdle

Next ==
    \/ \E c \in Cells : InitCell(c)
    \/ \E c \in Callers, v \in SetVals : Setter(c, v)
    \/ \E c \in Cells : Persist(c)
    \/ \E c \in Callers : Remover(c)
    \/ \E c \in Cells : DeliverAny(c)
    \/ \E key \in Keys, s \in RawIn : ExtWrite(key, s)
    \/ QuotaChange

Spec == Init /\ [][Next]_vars

\* every pending write is persisted sooner or later
LiveSpec == Spec /\ \A c \in Callers : WF_vars(Persist(c))

InitCodec == CodecStart /\ CellsIdle /\ MediaIdle

NextCodec == CodecEncode \/ CodecDecode \/ CodecDecodeRaw

SpecCodec == InitCodec /\ [][NextCodec]_vars

InitMedia == CodecIdle /\ CellsIdle /\ MediaStart

NextMedia ==
    \/ \E i \in Inst, o \in OptsIn : use_display_media(i, o)
    \/ \E i \in Inst : create_media(i)
    \/ \E i \in Inst, s \in Streams : PromiseResolves(i, s)
    \/ \E i \in Inst, e \in Rejections : PromiseRejects(i, e)

SpecMedia == InitMedia /\ [][NextMedia]_vars

\* ------------------------------------------------------------------------
\* C1  Round-trip law of StringCodec
\* ------------------------------------------------------------------------

IsNaN(v) == v.t = "f64" /\ v.f.k = "nan"

RoundTrip ==
    /\ cpc \in {"encoded", "decoded"} => cenc = OkStr(to_string(cin.v))
    /\ cpc = "decoded" => cdec.ok /\ ValEq(cdec.val, cin.v)
    /\ (cpc = "decoded" /\ ctype = "String") =>
           /\ cenc.val = cin.v.s
           /\ cdec.val.s = cin.v.s

\* C1 as stated: for every value v of every supported type, encode(v) is
\* Ok(s), never an error, and decode(s) is Ok(w) with w == v.
C1_RoundTripEveryValue == cin.kind = "val" => RoundTrip

\* C1 as amended: for every i8 value, every String and every f64 other than
\* NaN, encode(v) is Ok(to_string(v)) and decode of that string is Ok(w) with
\* w == v (a String encodes to itself and decodes to itself); for the f64 NaN
\* encode is Ok("NaN") and decode of it is Ok(NaN), which is not == NaN.
C1_RoundTrip ==
    cin.kind = "val" =>
        IF IsNaN(cin.v)
        THEN /\ cpc \in {"encoded", "decoded"} => cenc = OkStr(<<"N", "a", "N">>)
             /\ cpc = "decoded" => cdec.ok /\ IsNaN(cdec.val) /\ ~ValEq(cdec.val, cin.v)
        ELSE RoundTrip

\* the most negative i8 has gone through encode and decode and come back
C1_Witness ==
    /\ cpc = "decoded"
    /\ ctype = "i8"
    /\ cin.v.i = I8Min
    /\ cenc.val = <<"-", "1", "2", "8">>
    /\ cdec = Ok(I8V(I8Min))

\* ------------------------------------------------------------------------
\* C2  Write propagation
\* ------------------------------------------------------------------------

\* C2: right after the setter is called with v the reactive value is v and
\* the medium is as it was (persistence has not run); after a setter call the
\* medium comes to hold to_string of the value written last at the key,
\* unless a persistence step fails; and the medium changes only by a write or
\* a removal of the key.
C2_WritePropagation ==
    /\ [][\A c \in Cells, v \in SetVals :
            Setter(c, v) => /\ value'[c] = v
                            /\ medium' = medium
                            /\ pend'[c] # <<>>]_vars
    /\ (last.op = "set")
          ~> (\/ medium[Key] = Some(to_string(hist.w))
              \/ last.op = "persist" /\ last.res # "ok")
    /\ [][medium' # medium => last'.op \in {"persist", "remove", "ext_write", "init"}]_vars

\* the setter was called with -7 and 42, both writes are persisted, and the
\* medium holds "42"
C2_Witness ==
    /\ last.op = "persist"
    /\ last.res = "ok"
    /\ hist.w = I8V(42)
    /\ value[1] = I8V(42)
    /\ pend[1] = <<>>
    /\ ops = 2
    /\ medium[Key] = Some(<<"4", "2">>)

\* ------------------------------------------------------------------------
\* C3  Quota failure
\* ------------------------------------------------------------------------

\* C3: when the adapter's set of a pending write fails with QuotaExceeded,
\* the reactive values and the medium are left as they were (the value the
\* caller has just set stays), and the error callback is invoked once more,
\* with QuotaExceeded.
C3_QuotaFailure ==
    [][\A c \in Cells :
          (Persist(c) /\ mode = "full") =>
              /\ value' = value
              /\ medium' = medium
              /\ errs'[c] = [n |-> errs[c].n + 1, kind |-> "QuotaExceeded"]
              /\ last.op = "set" => value'[c] = hist.w]_vars

\* the write of 42 has failed on a full medium
C3_Witness ==
    /\ last = Did("persist", 1, "QuotaExceeded")
    /\ value[1] = I8V(42)
    /\ hist.w = I8V(42)
    /\ errs[1] = [n |-> 1, kind |-> "QuotaExceeded"]
    /\ medium[Key] # Some(<<"4", "2">>)

\* ------------------------------------------------------------------------
\* C4  Corrupt data at initialization
\* ------------------------------------------------------------------------

CorruptAtKey == AdapterGet(Key).some /\ ~from_str(CellType, AdapterGet(Key).s).ok

\* C4 as stated: initialization over a string the codec rejects yields the
\* default value and invokes the error callback exactly once.
C4_CorruptInitOnce ==
    [][\A c \in Cells :
          (InitCell(c) /\ CorruptAtKey) =>
              /\ value'[c] = default_value
              /\ errs'[c].n = errs[c].n + 1]_vars

\* C4 as amended: initialization over a string the codec rejects yields the
\* default value and invokes the error callback exactly once for the decode
\* failure, also when the default is then written back; the callback is
\* invoked a second time, with the store error, when that write-back fails.
C4_CorruptInit ==
    [][\A c \in Cells :
          (InitCell(c) /\ CorruptAtKey) =>
              /\ value'[c] = default_value
              /\ errs[c].n = 0
              /\ IF cfg[c].write_default /\ mode # "ok"
                 THEN errs'[c] = [n |-> 2, kind |-> "QuotaExceeded"]
                 ELSE errs'[c] = [n |-> 1, kind |-> "CodecError"]]_vars

\* a cell was initialized over "x", reported one error and wrote "0" back
C4_Witness ==
    /\ last.op = "init"
    /\ last.res = "corrupt"
    /\ errs[last.cell] = [n |-> 1, kind |-> "CodecError"]
    /\ value[last.cell] = default_value
    /\ medium[Key] = Some(<<"0">>)

\* ------------------------------------------------------------------------
\* C5  External-change propagation
\* ------------------------------------------------------------------------

Suppressed(c, ev) == cfg[c].filter_self /\ ev.origin = c

C6_Remove ==
    [][\A c \in Cells :
            Remover(c) =>
                /\ value'[c] = default_value
                /\ medium'[Key] = Absent
                /\ AdapterGet(Key)' = Absent
                /\ errs' = errs
                /\ ~medium[Key].some => medium' = medium /\ inbox' = inbox
                /\ last = Did("remove", c, "none") =>
                       UNCHANGED <<value, medium, inbox, pend, errs>>]_vars

\* the remover ran after a write was persisted
C6_Witness ==
    /\ last.op = "remove"
    /\ hist.written
    /\ pend[1] = <<>>
    /\ ops = 2
    /\ value[1] = default_value
    /\ medium[Key] = Absent

\* ------------------------------------------------------------------------
\* C7  Initialization
\* ------------------------------------------------------------------------

\* C7 as stated: on a missing key the value is the default and the medium
\* holds to_string(default) exactly if write_default_if_missing; on a key
\* that decodes the value is the decoded one and the medium is not written.
C7_InitWritesDefault ==
    [][\A c \in Cells :
          InitCell(c) =>
              LET raw == AdapterGet(Key)
              IN  /\ ~raw.some =>
                         /\ value'[c] = default_value
                         /\ medium'[Key] = IF cfg[c].write_default
                                           THEN Some(to_string(default_value))
                                           ELSE Absent
                  /\ (raw.some /\ from_str(CellType, raw.s).ok) =>
                         /\ value'[c] = from_str(CellType, raw.s).val
                         /\ medium' = medium]_vars

\* C7 as amended: on a missing key the value is the default, and the medium
\* holds to_string(default) if write_default_if_missing is true and the
\* adapter's set succeeds; it still has no entry if the option is false or the
\* set fails (QuotaExceeded, Unavailable), and a failed set is reported
\* through the error callback.  On a key that decodes the value is the
\* decoded one and the medium is not written.
C7_Init ==
    [][\A c \in Cells :
          InitCell(c) =>
              LET raw == AdapterGet(Key)
              IN  /\ ~raw.some =>
                         /\ value'[c] = default_value
                         /\ medium'[Key] = IF cfg[c].write_default /\ mode = "ok"
                                           THEN Some(to_string(default_value))
                                           ELSE Absent
                         /\ errs'[c].n = IF cfg[c].write_default /\ mode # "ok" THEN 1 ELSE 0
                  /\ (raw.some /\ from_str(CellType, raw.s).ok) =>
                         /\ value'[c] = from_str(CellType, raw.s).val
                         /\ medium' = medium
                         /\ errs' = errs]_vars

\* a cell was initialized on a missing key and wrote "0"
C7_Witness ==
    /\ last.op = "init"
    /\ last.res = "missing"
    /\ cfg[last.cell].write_default
    /\ value[last.cell] = default_value
    /\ errs[last.cell].n = 0
    /\ medium[Key] = Some(<<"0">>)

\* ------------------------------------------------------------------------
\* C8  Corrupt external change, external removal
\* ------------------------------------------------------------------------

\* C8: a change event whose new raw value the codec rejects leaves every
\* reactive value as it was and invokes the error callback once; an event
\* whose new raw value is None, from another context (or from the cell itself,
\* unless filter_self_events suppresses it), resets the value to the default.
C8_CorruptChange ==
    [][\A c \in Cells : \A i \in 1..Len(inbox[c]) :
          Deliver(c, i) =>
              LET ev == inbox[c][i]
              IN  /\ (ev.new.some /\ ~from_str(CellType, ev.new.s).ok) =>
                         /\ value' = value
                         /\ errs'[c] = [n |-> errs[c].n + 1, kind |-> "CodecError"]
                  /\ (~ev.new.some /\ ~Suppressed(c, ev)) =>
                         /\ value'[c] = default_value
                         /\ errs' = errs]_vars

\* the event of another context's write of "x" was refused by a cell holding 42
C8_Witness ==
    /\ last = Did("event", 1, "corrupt")
    /\ value[1] = I8V(42)
    /\ errs[1] = [n |-> 1, kind |-> "CodecError"]

\* ------------------------------------------------------------------------
\* C9  Eventual consistency under rapid writes
\* ------------------------------------------------------------------------

Quiescent == \A c \in Cells : pend[c] = <<>> /\ inbox[c] = <<>>

\* C9: after only successful setter calls on cell 1, once every pending write
\* is persisted and every change event processed, the medium holds
\* to_string of the last value written and cell 2 holds that value.
C9_EventuallyConsistent ==
    (/\ hist.clean
     /\ hist.written
     /\ pc[2] = "ready"
     /\ Quiescent)
        => /\ medium[Key] = Some(to_string(hist.w))
           /\ value[2] = hist.w

\* ------------------------------------------------------------------------
\* C10  use_display_media never aborts
\* ------------------------------------------------------------------------

====
